---- MODULE Spec2Model ----
(***************************************************************************)
(* Model of the bearden daemon controller (server.py): start / stop /      *)
(* restart / status over one PID file and the operating system's process   *)
(* table.  The controller is a sequential program; every step below is one *)
(* stretch of its code between two points where the outside world (the     *)
(* spawned gunicorn daemon, other processes) can act.                      *)
(***************************************************************************)
EXTENDS Integers, Sequences, FiniteSets, TLC

\* ------------------------------------------------------------------ bounds
\* Size of the process-id space of the model.
MaxPid == 2

Pids == 1..MaxPid

\* ------------------------------------------------------- program constants
\* get_pid's "no pid" result (None); a PID file that does not exist;
\* a PID file whose text is not a decimal integer (int() raises ValueError).
None == 0
NoFile == 0
Garbage == -1
PollLimit_short == 30 - 1

\* range(30): number of one-second liveness polls in stop.
PollLimit == 30
\* Exit codes of the spawn command (uv run gunicorn ... --daemon).
SpawnCodes == {0, 1, 2}

FileContents == Pids \cup {NoFile, Garbage}

\* Process-table entry of a pid: "dead" (no such process: kill raises
\* ProcessLookupError), "server" (a process the controller may signal),
\* "denied" (a process of another user: kill raises PermissionError).
ProcKinds == {"dead", "server", "denied"}

VARIABLES
    pidFile,    \* contents of gunicorn.pid
    procs,      \* process table: Pids -> ProcKinds
    pending,    \* spawned daemons that have not yet written the PID file
    pc,         \* controller position
    cmd,        \* command being executed (sys.argv[1])
    pid,        \* stop's local variable pid
    polls,      \* stop's loop counter
    ret,        \* exit code of the last finished command
    out,        \* last line printed by the last finished command
    raised,     \* the last command ended with an uncaught exception
    h,          \* history of the command in progress (observation only)
    heap,       \* the dict objects of one deep_merge call, by address
    heap0,      \* the heap as it was when deep_merge was called
    refs,       \* addresses of deep_merge's arguments and of its result
    baseDoc,    \* config.toml: missing, malformed, or a document
    localDoc,   \* config.local.toml: likewise
    resp,       \* what the last configuration-reading operation answered
    tick        \* flips at every such operation (observation only)

vars == <<pidFile, procs, pending, pc, cmd, pid, polls, ret, out, raised, h>>

mergeVars == <<heap, heap0, refs>>

webVars == <<baseDoc, localDoc, resp, tick>>

\* ------------------------------------------------------------ liveness
\* os.kill(p, sig): "ok", "ProcessLookupError" or "PermissionError".
os_kill(pr, p) ==
    IF pr[p] = "dead" THEN "ProcessLookupError"
    ELSE IF pr[p] = "denied" THEN "PermissionError"
    ELSE "ok"

\* The instance is Running: PID file present, a decimal pid, probe succeeds.
Running(f, pr) == f \in Pids /\ pr[f] = "server"

\* Classification of the PID file against the process table.
FileKind(f, pr) ==
    IF f = NoFile THEN "absent"
    ELSE IF f = Garbage THEN "garbage"
    ELSE IF pr[f] = "server" THEN "live"
    ELSE IF pr[f] = "denied" THEN "denied"
    ELSE "stale"

get_pid_unlinks_only_dead(f, pr) ==
    IF f = NoFile THEN [pid |-> None, file |-> NoFile]
    ELSE IF f = Garbage THEN [pid |-> None, file |-> f]
    ELSE IF os_kill(pr, f) = "ok" THEN [pid |-> f, file |-> f]
    ELSE IF os_kill(pr, f) = "ProcessLookupError" THEN [pid |-> None, file |-> NoFile]
    ELSE [pid |-> None, file |-> f]

get_pid_no_unlink(f, pr) ==
    IF f = NoFile THEN [pid |-> None, file |-> NoFile]
    ELSE IF f = Garbage THEN [pid |-> None, file |-> f]
    ELSE IF os_kill(pr, f) = "ok" THEN [pid |-> f, file |-> f]
    ELSE [pid |-> None, file |-> f]

get_pid_no_probe(f, pr) ==
    IF f = NoFile THEN [pid |-> None, file |-> NoFile]
    ELSE IF f = Garbage THEN [pid |-> None, file |-> NoFile]
    ELSE [pid |-> f, file |-> f]

\* get_pid(): the pid it returns and the PID file it leaves behind.
get_pid(f, pr) ==
    IF f = NoFile THEN [pid |-> None, file |-> NoFile]
    ELSE IF f = Garbage THEN [pid |-> None, file |-> NoFile]
    ELSE IF os_kill(pr, f) = "ok" THEN [pid |-> f, file |-> f]
    ELSE [pid |-> None, file |-> NoFile]

\* ------------------------------------------------------------- history
NoHist ==
    [entry     |-> "none",  \* FileKind at the command's first liveness check
     quiet     |-> TRUE,    \* no daemon but the one the file names was alive then
     stopSaw   |-> "none",  \* FileKind at stop's own liveness check
     startSaw  |-> "none",  \* FileKind at start's first liveness check
     spawns    |-> 0,       \* spawn commands run
     spawnRc   |-> -1,      \* exit code of the spawn command
     spawnFile |-> "none",  \* FileKind when the spawn command was run
     term      |-> "no",    \* SIGTERM: "no", "sent", "gone", "denied"
     kill      |-> "no",    \* SIGKILL: likewise
     gone      |-> FALSE,   \* a poll found the process gone
     stopRet   |-> -1,      \* stop's return value
     stopOut   |-> "",      \* stop's last printed line
     stopFile  |-> "none",  \* FileKind when stop returned
     probe     |-> "none",  \* FileKind at start's liveness check after the spawn
     fileRet   |-> "none"]  \* FileKind when the command returned

\* ---------------------------------------------------------- dispatch
Commands == {"start", "stop", "restart", "status"}

\* main(): look the command up and call it.
Invoke(c) ==
    /\ pc = "idle"
    /\ pc' = c
    /\ cmd' = c
    /\ pid' = None
    /\ polls' = 0
    /\ ret' = -1
    /\ out' = ""
    /\ raised' = FALSE
    /\ h' = NoHist
    /\ UNCHANGED <<pidFile, procs, pending>>

\* sys.exit(main()): the command's return value becomes the exit code.
Finish(code, msg, hist) ==
    /\ pc' = "idle"
    /\ ret' = code
    /\ out' = msg
    /\ raised' = FALSE
    /\ h' = [hist EXCEPT !.fileRet = FileKind(pidFile', procs')]

\* An exception no handler catches: traceback, exit code 1.
Raise(hist) ==
    /\ pc' = "idle"
    /\ ret' = 1
    /\ out' = "Traceback"
    /\ raised' = TRUE
    /\ h' = [hist EXCEPT !.fileRet = FileKind(pidFile', procs')]

Entry(hist) ==
    IF hist.entry = "none"
    THEN [hist EXCEPT !.entry = FileKind(pidFile, procs),
                      !.quiet = \A p \in Pids : procs[p] = "server" => p = pidFile]
    ELSE hist

\* ------------------------------------------------------------- status
status_code_inverted(p) == IF p # None THEN 1 ELSE 0

\* status(): exit code for get_pid's result.
status_code(p) == IF p # None THEN 0 ELSE 1

Status ==
    /\ pc = "status"
    /\ LET g == get_pid(pidFile, procs) IN
        /\ pidFile' = g.file
        /\ UNCHANGED <<procs, pending, cmd, pid, polls>>
        /\ Finish(status_code(g.pid),
                  IF g.pid # None THEN "Server is running" ELSE "Server is not running",
                  Entry(h))

\* -------------------------------------------------------------- start
restart_return_zero(code) == 0

\* restart(): return start().
restart_return(code) == code

StartReturn(code, msg, hist) ==
    Finish(IF cmd = "restart" THEN restart_return(code) ELSE code, msg, hist)

Start_GetPid_no_check ==
    /\ pc = "start"
    /\ LET g == get_pid(pidFile, procs)
           hist == [Entry(h) EXCEPT !.startSaw = FileKind(pidFile, procs)]
       IN
        /\ pidFile' = g.file
        /\ UNCHANGED <<procs, pending, cmd, pid, polls>>
        /\ pc' = "start_spawn"
        /\ h' = hist
        /\ UNCHANGED <<ret, out, raised>>

\* start(), lines 39-42: refuse when get_pid reports a pid.
Start_GetPid ==
    /\ pc = "start"
    /\ LET g == get_pid(pidFile, procs)
           hist == [Entry(h) EXCEPT !.startSaw = FileKind(pidFile, procs)]
       IN
        /\ pidFile' = g.file
        /\ UNCHANGED <<procs, pending, cmd, pid, polls>>
        /\ IF g.pid # None
           THEN StartReturn(1, "Server already running", hist)
           ELSE /\ pc' = "start_spawn"
                /\ h' = hist
                /\ UNCHANGED <<ret, out, raised>>

\* start(), lines 44-57 and 69-71: run the spawn command; a zero exit code
\* means the daemon was forked (it writes the PID file on its own, later).
Start_Spawn ==
    /\ pc = "start_spawn"
    /\ \E rc \in SpawnCodes :
        LET hist == [h EXCEPT !.spawns = @ + 1, !.spawnRc = rc,
                              !.spawnFile = FileKind(pidFile, procs)]
        IN
        IF rc = 0
        THEN /\ \E p \in Pids :
                    /\ procs[p] = "dead"
                    /\ procs' = [procs EXCEPT ![p] = "server"]
                    /\ pending' = pending \cup {p}
             /\ pc' = "start_check"
             /\ h' = hist
             /\ UNCHANGED <<pidFile, cmd, pid, polls, ret, out, raised>>
        ELSE /\ UNCHANGED <<pidFile, procs, pending, cmd, pid, polls>>
             /\ StartReturn(rc, "Failed to start server", hist)

Start_Check_no_probe ==
    /\ pc = "start_check"
    /\ UNCHANGED <<pidFile, procs, pending, cmd, pid, polls>>
    /\ StartReturn(0, "Server started", h)

\* start(), lines 61-68: after the sleep, look for the daemon's pid.
Start_Check ==
    /\ pc = "start_check"
    /\ LET g == get_pid(pidFile, procs)
           hist == [h EXCEPT !.probe = FileKind(pidFile, procs)]
       IN
        /\ pidFile' = g.file
        /\ UNCHANGED <<procs, pending, cmd, pid, polls>>
        /\ IF g.pid # None
           THEN StartReturn(0, "Server started", hist)
           ELSE StartReturn(1, "Server started but PID file not found", hist)

\* --------------------------------------------------------------- stop
\* stop() returns: to restart (which discards the value and calls start),
\* or to main.
StopReturn(code, msg, hist) ==
    LET hs == [hist EXCEPT !.stopRet = code, !.stopOut = msg,
                           !.stopFile = FileKind(pidFile', procs')]
    IN IF cmd = "restart"
       THEN /\ pc' = "start"
            /\ h' = hs
            /\ UNCHANGED <<ret, out, raised>>
       ELSE Finish(code, msg, hs)

\* stop(), lines 76-79.
Stop_GetPid ==
    /\ pc = "stop"
    /\ LET g == get_pid(pidFile, procs)
           hist == [Entry(h) EXCEPT !.stopSaw = FileKind(pidFile, procs)]
       IN
        /\ pidFile' = g.file
        /\ UNCHANGED <<procs, pending, cmd, polls>>
        /\ IF g.pid = None
           THEN /\ pid' = None
                /\ StopReturn(1, "Server is not running", hist)
           ELSE /\ pid' = g.pid
                /\ pc' = "stop_term"
                /\ h' = hist
                /\ UNCHANGED <<ret, out, raised>>

\* stop(), lines 104-107: the handler of ProcessLookupError.
stop_lookup_error_keeps_file(hist) ==
    /\ pidFile' = pidFile
    /\ StopReturn(0, "Server was not running", hist)

stop_lookup_error_returns_one(hist) ==
    /\ pidFile' = NoFile
    /\ StopReturn(1, "Server is not running", hist)

stop_lookup_error(hist) ==
    /\ pidFile' = NoFile
    /\ StopReturn(0, "Server was not running", hist)

\* stop(), lines 83-84: send SIGTERM.
Stop_Term ==
    /\ pc = "stop_term"
    /\ UNCHANGED <<procs, pending, cmd, pid>>
    /\ LET r == os_kill(procs, pid) IN
        IF r = "ok"
        THEN /\ pc' = "stop_poll"
             /\ polls' = 0
             /\ h' = [h EXCEPT !.term = "sent"]
             /\ UNCHANGED <<pidFile, ret, out, raised>>
        ELSE IF r = "ProcessLookupError"
        THEN /\ UNCHANGED polls
             /\ stop_lookup_error([h EXCEPT !.term = "gone"])
        ELSE /\ UNCHANGED <<pidFile, polls>>
             /\ Raise([h EXCEPT !.term = "denied"])

\* stop(), lines 89-96: sleep one second, probe; one iteration of the loop.
Stop_Poll ==
    /\ pc = "stop_poll"
    /\ polls < PollLimit
    /\ UNCHANGED <<procs, pending, cmd, pid>>
    /\ LET r == os_kill(procs, pid) IN
        IF r = "ok"
        THEN /\ polls' = polls + 1
             /\ pc' = IF polls + 1 = PollLimit THEN "stop_kill" ELSE "stop_poll"
             /\ UNCHANGED <<pidFile, ret, out, raised, h>>
        ELSE IF r = "ProcessLookupError"
        THEN /\ polls' = polls + 1
             /\ pidFile' = NoFile
             /\ StopReturn(0, "Server stopped", [h EXCEPT !.gone = TRUE])
        ELSE /\ polls' = polls + 1
             /\ UNCHANGED pidFile
             /\ Raise(h)

\* stop(), lines 98-103: the loop ran out; send SIGKILL.
Stop_Kill ==
    /\ pc = "stop_kill"
    /\ UNCHANGED <<cmd, pid, polls>>
    /\ LET r == os_kill(procs, pid) IN
        IF r = "ok"
        THEN /\ procs' = [procs EXCEPT ![pid] = "dead"]
             /\ pending' = pending \ {pid}
             /\ pidFile' = NoFile
             /\ StopReturn(0, "Server killed", [h EXCEPT !.kill = "sent"])
        ELSE IF r = "ProcessLookupError"
        THEN /\ UNCHANGED <<procs, pending>>
             /\ stop_lookup_error([h EXCEPT !.kill = "gone"])
        ELSE /\ UNCHANGED <<procs, pending, pidFile>>
             /\ Raise([h EXCEPT !.kill = "denied"])

\* ------------------------------------------------------------ restart
\* restart(), lines 112-115: stop only when get_pid reports a pid.
Restart_GetPid ==
    /\ pc = "restart"
    /\ LET g == get_pid(pidFile, procs) IN
        /\ pidFile' = g.file
        /\ pc' = IF g.pid # None THEN "stop" ELSE "start"
        /\ h' = Entry(h)
        /\ UNCHANGED <<procs, pending, cmd, pid, polls, ret, out, raised>>

\* -------------------------------------------------------- environment
\* A process exits (on its own, on a signal, or killed from outside).
ProcDies(p) ==
    /\ procs[p] # "dead"
    /\ procs' = [procs EXCEPT ![p] = "dead"]
    /\ pending' = pending \ {p}
    /\ UNCHANGED <<pidFile, pc, cmd, pid, polls, ret, out, raised, h>>

\* A free pid is taken by a process of another user.
ProcAppears(p) ==
    /\ procs[p] = "dead"
    /\ procs' = [procs EXCEPT ![p] = "denied"]
    /\ UNCHANGED <<pidFile, pending, pc, cmd, pid, polls, ret, out, raised, h>>

\* The spawned daemon writes its pid to the PID file (gunicorn --pid).
ServerWritesPid(p) ==
    /\ p \in pending
    /\ pidFile' = p
    /\ pending' = pending \ {p}
    /\ UNCHANGED <<procs, pc, cmd, pid, polls, ret, out, raised, h>>


\* ======================================================================
\* Configuration (app.py): deep_merge over dict objects
\* ======================================================================
\* Number of distinct integer values in the documents of the model.
MaxVal == 2

Ints == 1..MaxVal

\* A document is a tree: a function from keys to values, a value being an
\* integer [i |-> n], a string [t |-> s], a list [l |-> seq] or a nested
\* mapping [m |-> tree].  On the heap a dict holds the same cells except
\* that a nested dict is held by reference, [r |-> address].
IsMap(v) == DOMAIN v = {"m"}
IsRef(c) == DOMAIN c = {"r"}

\* Order in which a dict yields its keys.
KeyOrder == <<"a", "b", "server", "services", "port", "s1", "s2", "url">>

items(d) ==
    LET In(k) == k \in DOMAIN d
    IN SelectSeq(KeyOrder, In)

\* d[k] = c on the dict at address a.
dict_set(hp, a, k, c) ==
    [hp EXCEPT ![a] = [x \in (DOMAIN hp[a]) \cup {k} |->
                            IF x = k THEN c ELSE hp[a][x]]]

dict_copy_alias(hp, a) == [heap |-> hp, addr |-> a]

\* base.copy(): a new dict object with the same cells (a shallow copy).
dict_copy(hp, a) == [heap |-> Append(hp, hp[a]), addr |-> Len(hp) + 1]

RECURSIVE deep_merge(_, _, _)
RECURSIVE merge_items(_, _, _, _)
RECURSIVE merge_items_shallow(_, _, _, _)

merge_items_shallow(hp, res, over, ks) ==
    IF ks = <<>> THEN hp
    ELSE merge_items_shallow(dict_set(hp, res, Head(ks), hp[over][Head(ks)]),
                             res, over, Tail(ks))

\* deep_merge, lines 17-21: the loop over override.items().
merge_items(hp, res, over, ks) ==
    IF ks = <<>> THEN hp
    ELSE LET key == Head(ks)
             value == hp[over][key]
         IN IF key \in DOMAIN hp[res] /\ IsRef(hp[res][key]) /\ IsRef(value)
            THEN LET sub == deep_merge(hp, hp[res][key].r, value.r)
                 IN merge_items(dict_set(sub.heap, res, key, [r |-> sub.addr]),
                                res, over, Tail(ks))
            ELSE merge_items(dict_set(hp, res, key, value), res, over, Tail(ks))

\* deep_merge(base, override): the heap it leaves and the address of the
\* dict it returns.
deep_merge(hp, base, over) ==
    LET c == dict_copy(hp, base)
    IN [heap |-> merge_items(c.heap, c.addr, over, items(hp[over])),
        addr |-> c.addr]

\* The value of the dict at address a, as a tree.
RECURSIVE Deref(_, _)
Deref(hp, a) ==
    [k \in DOMAIN hp[a] |->
        IF IsRef(hp[a][k]) THEN [m |-> Deref(hp, hp[a][k].r)] ELSE hp[a][k]]

\* tomllib.load: the dict objects of a parsed document, put on the heap.
RECURSIVE Build(_, _)
RECURSIVE build_items(_, _, _, _)
build_items(hp, a, tree, ks) ==
    IF ks = <<>> THEN [heap |-> hp, addr |-> a]
    ELSE LET k == Head(ks)
             v == tree[k]
         IN IF IsMap(v)
            THEN LET sub == Build(hp, v.m)
                 IN build_items(dict_set(sub.heap, a, k, [r |-> sub.addr]),
                                a, tree, Tail(ks))
            ELSE build_items(dict_set(hp, a, k, v), a, tree, Tail(ks))

Build(hp, tree) ==
    build_items(Append(hp, <<>>), Len(hp) + 1, tree, items(tree))

\* Addresses reachable from address a (a itself and every nested dict).
RECURSIVE Reach(_, _)
Reach(hp, a) ==
    {a} \cup UNION {Reach(hp, hp[a][k].r) : k \in {x \in DOMAIN hp[a] : IsRef(hp[a][x])}}

\* Mappings over a key set with values drawn from a value set; a key may
\* be absent.
Maps(keys, vals) ==
    UNION {[ks -> vals] : ks \in SUBSET keys}

LeafValues == {[i |-> n] : n \in Ints} \cup {[l |-> <<n>>] : n \in Ints}

\* Documents of the merge checks: three levels of nesting under "a".
Level3 == Maps({"a"}, {[i |-> n] : n \in Ints})
Level2 ==
    {[k \in ka \cup kb |-> IF k = "a" THEN va ELSE vb] :
        ka \in {{"a"}}, kb \in {{"b"}},
        va \in LeafValues \cup {[m |-> d] : d \in Level3}, vb \in LeafValues}
    \cup Maps({"a"}, LeafValues \cup {[m |-> d] : d \in Level3})
    \cup Maps({"b"}, LeafValues)
Trees ==
    {[k \in {"a", "b"} |-> IF k = "a" THEN va ELSE vb] :
        va \in LeafValues \cup {[m |-> d] : d \in Level2}, vb \in LeafValues}
    \cup Maps({"a"}, LeafValues \cup {[m |-> d] : d \in Level2})
    \cup Maps({"b"}, LeafValues)

MergeIdle ==
    /\ heap = <<>>
    /\ heap0 = <<>>
    /\ refs = [base |-> 0, over |-> 0, res |-> 0]

\* Two parsed documents, about to be merged.
MergeInit ==
    \E b \in Trees, o \in Trees :
        LET hb == Build(<<>>, b)
            ho == Build(hb.heap, o)
        IN /\ heap = ho.heap
           /\ heap0 = ho.heap
           /\ refs = [base |-> hb.addr, over |-> ho.addr, res |-> 0]

\* load_config, line 33: config = deep_merge(config, local_config).
MergeCall ==
    /\ refs.res = 0
    /\ LET r == deep_merge(heap, refs.base, refs.over)
       IN /\ heap' = r.heap
          /\ refs' = [refs EXCEPT !.res = r.addr]
    /\ UNCHANGED heap0

\* ======================================================================
\* Web front (app.py) and process-manager configuration (gunicorn.conf.py)
\* ======================================================================
\* .get("port", 5000) in app.main; port = 5000 in _load_port.
DefaultPortWeb == 5000
DefaultPortGunicorn == 5000
\* latency_ms: None.
NoLatency == -1

BasePort == 8080
LocalPort == 9090
BaseUrl == "http://svc"
LocalUrl == "http://alt"
ServiceIds == {"s1", "s2"}

\* A configuration file: [st |-> "missing"], [st |-> "malformed"] (not
\* TOML) or [doc |-> tree].
Missing == [st |-> "missing"]
Malformed == [st |-> "malformed"]
Readable(f) == DOMAIN f = {"doc"}

\* Documents of the configuration format: an optional server table with an
\* optional integer port, an optional services table of tables with an
\* optional url string.
Port(p) == [m |-> [port |-> [i |-> p]]]
Service(u) == [m |-> [url |-> [t |-> u]]]
Empty == [m |-> <<>>]

\* config.toml declares at most the service s1.
BaseDocs ==
    LET servers == {Empty, Port(BasePort)}
        services == {Empty, [m |-> [s1 |-> Empty]], [m |-> [s1 |-> Service(BaseUrl)]]}
    IN {[k \in {"server", "services"} |-> IF k = "server" THEN sv ELSE sc] :
            sv \in servers, sc \in services}
       \cup Maps({"server"}, servers) \cup Maps({"services"}, services)

\* config.local.toml overrides the port, s1 or its url, or adds s2.
LocalDocs ==
    {<<>>, [server |-> Empty], [server |-> Port(LocalPort)],
     [services |-> Empty],
     [services |-> [m |-> [s1 |-> Empty]]],
     [services |-> [m |-> [s1 |-> Service(LocalUrl)]]],
     [services |-> [m |-> [s2 |-> Service(LocalUrl)]]]}

BaseFiles == {Missing, Malformed} \cup {[doc |-> d] : d \in BaseDocs}
LocalFiles == {Missing, Malformed} \cup {[doc |-> d] : d \in LocalDocs}

\* deep_merge on two freshly parsed documents, as a tree.
merged(b, o) ==
    LET hb == Build(<<>>, b)
        ho == Build(hb.heap, o)
        r == deep_merge(ho.heap, hb.addr, ho.addr)
    IN Deref(r.heap, r.addr)

ConfigError(e) == [ok |-> FALSE, err |-> e, config |-> <<>>]

\* load_config(): the merged configuration, or the exception open() or
\* tomllib.load() raises.
load_config(base, local) ==
    IF base = Missing THEN ConfigError("FileNotFoundError")
    ELSE IF base = Malformed THEN ConfigError("TOMLDecodeError")
    ELSE IF local = Missing THEN [ok |-> TRUE, err |-> "", config |-> base.doc]
    ELSE IF local = Malformed THEN ConfigError("TOMLDecodeError")
    ELSE [ok |-> TRUE, err |-> "", config |-> merged(base.doc, local.doc)]

\* config.get(k, {}) on a document whose value at k is a table.
get_table(d, k) == IF k \in DOMAIN d THEN d[k].m ELSE <<>>

\* .get("port", default) on a server table.
get_port(sv, default) == IF "port" \in DOMAIN sv THEN sv["port"].i ELSE default

\* service.get("url", "").
get_url(svc) == IF "url" \in DOMAIN svc THEN svc["url"].t ELSE ""

\* app.main(): the port it listens on, or the exception of load_config.
main_port(base, local) ==
    LET c == load_config(base, local)
    IN IF ~c.ok THEN [failed |-> TRUE, port |-> 0]
       ELSE [failed |-> FALSE,
             port |-> get_port(get_table(c.config, "server"), DefaultPortWeb)]

load_port_local_resets(base, local) ==
    IF base = Malformed \/ local = Malformed THEN [failed |-> TRUE, port |-> 0]
    ELSE LET p1 == IF base = Missing THEN DefaultPortGunicorn
                   ELSE get_port(get_table(base.doc, "server"), DefaultPortGunicorn)
             p2 == IF local = Missing THEN p1
                   ELSE get_port(get_table(local.doc, "server"), DefaultPortGunicorn)
         IN [failed |-> FALSE, port |-> p2]

\* _load_port() of gunicorn.conf.py.
load_port(base, local) ==
    IF base = Malformed \/ local = Malformed THEN [failed |-> TRUE, port |-> 0]
    ELSE LET p1 == IF base = Missing THEN DefaultPortGunicorn
                   ELSE get_port(get_table(base.doc, "server"), DefaultPortGunicorn)
             p2 == IF local = Missing THEN p1
                   ELSE get_port(get_table(local.doc, "server"), p1)
         IN [failed |-> FALSE, port |-> p2]

\* What the network does to one GET: a response with a status code after
\* some milliseconds, or a transport failure (requests.RequestException).
StatusCodes == {200, 404, 499, 500, 503}
Elapsed == {0, 25}
NetOutcomes ==
    {[kind |-> "response", code |-> c, ms |-> e] : c \in StatusCodes, e \in Elapsed}
    \cup {[kind |-> k, code |-> 0, ms |-> 0] : k \in {"refused", "timeout"}}
NoNet == [kind |-> "none", code |-> 0, ms |-> 0]

\* requests.get(url, timeout=5): an empty url raises MissingSchema, a
\* RequestException, before anything is sent.
requests_get(url, net) ==
    IF url = "" THEN [kind |-> "invalid", code |-> 0, ms |-> 0] ELSE net

classify_below_400(code) == IF code < 400 THEN "up" ELSE "down"

\* health_check, lines 61-64.
classify(code) == IF code < 500 THEN "up" ELSE "down"

NoResp ==
    [op |-> "none", sid |-> "", net |-> NoNet, failed |-> FALSE, code |-> 0,
     status |-> "", latency |-> NoLatency, error |-> "", probed |-> FALSE,
     url |-> "",
     services |-> <<>>, port |-> 0, changed |-> FALSE]

\* The answer to a request whose handler raised: HTTP 500.
ServerError(r) == [r EXCEPT !.failed = TRUE, !.code = 500]

index_cached(base, local) ==
    IF resp.op = "index" THEN resp
    ELSE LET c == load_config(base, local)
             r == [NoResp EXCEPT !.op = "index"]
         IN IF ~c.ok THEN ServerError(r)
            ELSE [r EXCEPT !.code = 200, !.services = get_table(c.config, "services")]

\* index(): the services handed to the template.
index(base, local) ==
    LET c == load_config(base, local)
        r == [NoResp EXCEPT !.op = "index"]
    IN IF ~c.ok THEN ServerError(r)
       ELSE [r EXCEPT !.code = 200, !.services = get_table(c.config, "services")]

\* health_check, lines 54-67: the probe of a configured service.
probe_service(r, svc, net) ==
    LET url == get_url(svc)
        got == requests_get(url, net)
    IN IF got.kind = "response"
       THEN [r EXCEPT !.code = 200, !.probed = TRUE, !.url = url,
                      !.status = classify(got.code), !.latency = got.ms]
       ELSE [r EXCEPT !.code = 200, !.probed = TRUE, !.url = url,
                      !.status = "down"]

health_check_unknown_is_down(base, local, sid, net) ==
    LET c == load_config(base, local)
        r == [NoResp EXCEPT !.op = "health", !.sid = sid, !.net = net]
    IN IF ~c.ok THEN ServerError(r)
       ELSE LET services == get_table(c.config, "services")
            IN probe_service(r, IF sid \in DOMAIN services THEN services[sid].m ELSE <<>>, net)

\* health_check(service_id).
health_check(base, local, sid, net) ==
    LET c == load_config(base, local)
        r == [NoResp EXCEPT !.op = "health", !.sid = sid, !.net = net]
    IN IF ~c.ok THEN ServerError(r)
       ELSE LET services == get_table(c.config, "services")
            IN IF sid \notin DOMAIN services
               THEN [r EXCEPT !.code = 404, !.status = "unknown",
                              !.error = "Service not found"]
               ELSE probe_service(r, services[sid].m, net)

\* An operation answered r: it becomes the last answer.
Answer(r) ==
    /\ resp' = [r EXCEPT !.changed =
                    resp.op = r.op /\ resp.sid = r.sid /\ resp.net = r.net
                    /\ [resp EXCEPT !.changed = FALSE] # r]
    /\ tick' = ~tick
    /\ UNCHANGED <<baseDoc, localDoc>>

\* GET /.
Index == Answer(index(baseDoc, localDoc))

\* GET /health/<service_id>.
Health(sid, net) == Answer(health_check(baseDoc, localDoc, sid, net))

\* python app.py: main() resolves the port once.
WebMain ==
    LET m == main_port(baseDoc, localDoc)
    IN Answer([NoResp EXCEPT !.op = "main", !.failed = m.failed, !.port = m.port])

\* gunicorn loads gunicorn.conf.py: _port = _load_port().
LoadPort ==
    LET m == load_port(baseDoc, localDoc)
    IN Answer([NoResp EXCEPT !.op = "load_port", !.failed = m.failed, !.port = m.port])

\* Someone edits, removes or breaks config.toml / config.local.toml.
EditBase(f) ==
    /\ f # baseDoc
    /\ baseDoc' = f
    /\ UNCHANGED <<localDoc, resp, tick>>

EditLocal(f) ==
    /\ f # localDoc
    /\ localDoc' = f
    /\ UNCHANGED <<baseDoc, resp, tick>>

WebIdle ==
    /\ baseDoc = Missing
    /\ localDoc = Missing
    /\ resp = NoResp
    /\ tick = FALSE

WebInit ==
    /\ baseDoc \in BaseFiles
    /\ localDoc = Missing
    /\ resp = NoResp
    /\ tick = FALSE

\* ------------------------------------------------------ specification
Init ==
    /\ pidFile \in {NoFile, Garbage}
    /\ procs = [p \in Pids |-> "dead"]
    /\ pending = {}
    /\ pc = "idle"
    /\ cmd = "none"
    /\ pid = None
    /\ polls = 0
    /\ ret = -1
    /\ out = ""
    /\ raised = FALSE
    /\ h = NoHist
    /\ MergeIdle
    /\ WebIdle

\* The controller runs no configuration code.
CtlFrame == UNCHANGED <<mergeVars, webVars>>

Next ==
    \/ (\E c \in Commands : Invoke(c)) /\ CtlFrame
    \/ Status /\ CtlFrame
    \/ Start_GetPid /\ CtlFrame
    \/ Start_Spawn /\ CtlFrame
    \/ Start_Check /\ CtlFrame
    \/ Stop_GetPid /\ CtlFrame
    \/ Stop_Term /\ CtlFrame
    \/ Stop_Poll /\ CtlFrame
    \/ Stop_Kill /\ CtlFrame
    \/ Restart_GetPid /\ CtlFrame
    \/ (\E p \in Pids : ProcDies(p)) /\ CtlFrame
    \/ (\E p \in Pids : ProcAppears(p)) /\ CtlFrame
    \/ (\E p \in Pids : ServerWritesPid(p)) /\ CtlFrame

allVars == <<vars, mergeVars, webVars>>

Spec == Init /\ [][Next]_allVars

\* The controller at rest, for the specifications of the configuration code.
CtlIdle ==
    /\ pidFile = NoFile
    /\ procs = [p \in Pids |-> "dead"]
    /\ pending = {}
    /\ pc = "idle"
    /\ cmd = "none"
    /\ pid = None
    /\ polls = 0
    /\ ret = -1
    /\ out = ""
    /\ raised = FALSE
    /\ h = NoHist

\* deep_merge on every pair of documents.
NextMerge == MergeCall /\ UNCHANGED <<vars, webVars>>

InitMerge ==
    /\ CtlIdle
    /\ MergeInit
    /\ WebIdle

SpecMerge == InitMerge /\ [][NextMerge]_allVars

\* Requests, process starts and edits of the configuration files.
WebFrame == UNCHANGED <<vars, mergeVars>>

NextWeb ==
    \/ Index /\ WebFrame
    \/ (\E sid \in ServiceIds, net \in NetOutcomes : Health(sid, net)) /\ WebFrame
    \/ WebMain /\ WebFrame
    \/ LoadPort /\ WebFrame
    \/ (\E f \in BaseFiles : EditBase(f)) /\ WebFrame
    \/ (\E f \in LocalFiles : EditLocal(f)) /\ WebFrame

InitWeb ==
    /\ CtlIdle
    /\ MergeIdle
    /\ WebInit

SpecWeb == InitWeb /\ [][NextWeb]_allVars

TypeOK ==
    /\ pidFile \in FileContents
    /\ procs \in [Pids -> ProcKinds]
    /\ pending \subseteq {p \in Pids : procs[p] = "server"}
    /\ pid \in Pids \cup {None}
    /\ polls \in 0..PollLimit
\* ======================================================================
\* Properties
\* ======================================================================
\* A step of the controller out of position p (the environment's steps
\* leave pc alone).
Leaves(p) == pc = p /\ pc' # p

NoSignal(hist) == hist.term = "no" /\ hist.kill = "no"

\* C1: start called while the instance is Running returns a non-zero exit
\* code in that very step, runs no spawn command, sends no signal and
\* leaves the process table and the PID file as they were.
C1_StartWhileRunning ==
    [][(Leaves("start") /\ Running(pidFile, procs)) =>
          /\ pc' = "idle"
          /\ ret' # 0
          /\ ~raised'
          /\ h'.spawns = h.spawns
          /\ h'.term = h.term /\ h'.kill = h.kill
          /\ pidFile' = pidFile
          /\ procs' = procs
          /\ pending' = pending]_vars

C1_Witness ==
    /\ pc = "idle" /\ cmd = "start"
    /\ h.entry = "live" /\ h.spawns = 0
    /\ ret = 1 /\ out = "Server already running"

\* C2: stop called while the instance is Stopped (no PID file, or a PID
\* file that does not name a live process) returns non-zero in that step
\* without raising, sends no signal, and no PID file is left.
C2_StopWhileStopped ==
    [][(Leaves("stop") /\ ~Running(pidFile, procs)) =>
          /\ h'.stopRet > 0
          /\ h'.stopOut = "Server is not running"
          /\ NoSignal(h')
          /\ pidFile' = NoFile
          /\ procs' = procs
          /\ (cmd = "stop" => pc' = "idle" /\ ret' > 0 /\ ~raised')]_vars

C2_Witness ==
    /\ pc = "idle" /\ cmd = "stop"
    /\ h.stopSaw \in {"stale", "garbage", "denied"}
    /\ ret = 1 /\ ~raised
    /\ h.fileRet = "absent"

\* C3: whenever stop was called on a Running instance and has returned,
\* the PID file did not exist at its return: after a poll found the process
\* gone, after the forced kill, and when the process had vanished before
\* the graceful signal.
C3_StopRemovesPidFile ==
    (h.stopSaw = "live" /\ h.stopRet # -1) =>
        /\ h.stopFile = "absent"
        /\ \/ h.term = "gone" /\ h.stopOut = "Server was not running"
           \/ h.term = "sent" /\ h.gone /\ h.stopOut = "Server stopped"
           \/ h.term = "sent" /\ ~h.gone /\ h.kill = "sent" /\ h.stopOut = "Server killed"
           \/ h.term = "sent" /\ ~h.gone /\ h.kill = "gone" /\ h.stopOut = "Server was not running"

C3_Witness ==
    /\ pc = "idle" /\ cmd = "stop"
    /\ h.stopSaw = "live" /\ h.kill = "sent"
    /\ out = "Server killed" /\ h.stopFile = "absent" /\ pidFile = NoFile

\* C4: SIGKILL is attempted only after SIGTERM was delivered and 30 polls
\* in a row found the process alive; a poll that finds the process gone
\* makes stop return 0 with no SIGKILL; stop never polls more than 30 times.
C4_KillOnlyAfterThirtyPolls ==
    /\ polls <= 30
    /\ (pc = "stop_kill" \/ h.kill # "no") =>
            h.term = "sent" /\ polls = 30 /\ ~h.gone
    /\ h.gone => h.kill = "no" /\ h.stopRet = 0 /\ h.stopOut = "Server stopped"
    /\ (h.stopRet # -1 /\ h.term = "sent" /\ ~h.gone) => h.kill # "no"

C4_Witness ==
    /\ pc = "idle" /\ cmd = "stop"
    /\ h.term = "sent" /\ h.kill = "sent" /\ polls = 30 /\ ret = 0

\* C5 as stated: when the process disappears between stop's liveness check
\* and the graceful signal, stop ends as stop on a Stopped instance does
\* (same report, same exit code) and the stale PID file is removed.
C5_RaceSameAsStopped ==
    (h.term = "gone" /\ h.stopRet # -1) =>
        /\ h.stopRet = 1
        /\ h.stopOut = "Server is not running"
        /\ h.stopFile = "absent"

\* C5 amended: in that race stop removes the PID file, sends nothing more
\* and returns 0 with the report "Server was not running", whereas stop on
\* a Stopped instance returns 1 with "Server is not running".
C5_RaceReturnsZero ==
    /\ (h.term = "gone" /\ h.stopRet # -1) =>
            /\ h.stopSaw = "live"
            /\ h.stopRet = 0
            /\ h.stopOut = "Server was not running"
            /\ h.stopFile = "absent"
            /\ h.kill = "no" /\ polls = 0
    /\ (h.stopSaw \notin {"none", "live"} /\ h.stopRet # -1) =>
            /\ h.stopRet = 1
            /\ h.stopOut = "Server is not running"
            /\ h.stopFile = "absent"

C5_Witness ==
    /\ pc = "idle" /\ cmd = "stop"
    /\ h.stopSaw = "live" /\ h.term = "gone"
    /\ ret = 0 /\ out = "Server was not running" /\ pidFile = NoFile

\* What start does on a Stopped instance, as a function of the two things
\* the outside world decides (the spawn command's exit code and what the
\* liveness check after the delay finds).
StartOutcome ==
    /\ h.spawns = 1
    /\ h.spawnFile = "absent"
    /\ NoSignal(h)
    /\ IF h.spawnRc # 0
       THEN ret = h.spawnRc /\ h.probe = "none" /\ h.fileRet = "absent"
            /\ out = "Failed to start server"
       ELSE IF h.probe = "live"
       THEN ret = 0 /\ h.fileRet = "live" /\ out = "Server started"
       ELSE ret = 1 /\ h.fileRet = "absent"
            /\ out = "Server started but PID file not found"

\* C6: on an instance with no live managed process (no PID file or a stale
\* one, no spawned daemon alive) restart does what start does: no stop is
\* performed, and exit code, spawn attempt and final PID file are the same
\* function of the spawn's exit code and of the final liveness check.
C6_RestartStoppedIsStart ==
    (pc = "idle" /\ cmd \in {"start", "restart"} /\ ~raised
        /\ h.entry \notin {"none", "live"} /\ h.quiet) =>
        /\ h.stopSaw = "none"
        /\ h.startSaw \notin {"none", "live"}
        /\ StartOutcome

C6_Witness ==
    /\ pc = "idle" /\ cmd = "restart"
    /\ h.entry = "stale" /\ h.quiet
    /\ h.spawns = 1 /\ h.spawnRc = 2 /\ ret = 2

\* C7 as stated: restart on a Running instance has, when it returns,
\* performed stop (the old process signalled or found gone, the PID file
\* removed) and then exactly one spawn, and its exit code is start's.
C7_RestartRunningStopsThenStarts ==
    (pc = "idle" /\ cmd = "restart" /\ ~raised /\ h.entry = "live") =>
        /\ h.stopSaw # "none"
        /\ h.stopRet # -1
        /\ h.stopFile = "absent"
        /\ (h.stopSaw = "live" => h.term \in {"sent", "gone"})
        /\ h.spawns = 1
        /\ IF h.spawnRc # 0 THEN ret = h.spawnRc
           ELSE IF h.probe = "live" THEN ret = 0 ELSE ret = 1

\* The same with no second daemon alive when restart was called: the only
\* way restart on a Running instance ends without a spawn is a PID file
\* written, after stop removed it, by a daemon of an earlier start.
RestartRunningSingleDaemon ==
    (pc = "idle" /\ cmd = "restart" /\ ~raised /\ h.entry = "live" /\ h.quiet) =>
        /\ h.stopRet # -1
        /\ h.stopFile = "absent"
        /\ (h.stopSaw = "live" => h.term \in {"sent", "gone"})
        /\ h.spawns = 1
        /\ IF h.spawnRc # 0 THEN ret = h.spawnRc
           ELSE IF h.probe = "live" THEN ret = 0 ELSE ret = 1

\* C8: status returns 0 exactly when the instance is Running and non-zero
\* exactly when it is Stopped; on a Running instance it changes neither
\* the PID file nor the process table.
C8_StatusCode ==
    [][Leaves("status") =>
          /\ pc' = "idle" /\ ~raised'
          /\ (ret' = 0) <=> Running(pidFile, procs)
          /\ (ret' > 0) <=> ~Running(pidFile, procs)
          /\ Running(pidFile, procs) =>
                pidFile' = pidFile /\ procs' = procs /\ pending' = pending]_vars

C8_Witness ==
    /\ pc = "idle" /\ cmd = "status"
    /\ h.entry = "live" /\ ret = 0 /\ h.fileRet = "live"

\* C9: with a PID file naming a pid absent from the process table, status,
\* stop and start each delete the file and go on as for a Stopped instance:
\* status and stop report not running with a non-zero code, start goes on
\* to the spawn.
C9_StaleFileCleanup ==
    [][(pc \in {"status", "stop", "start"} /\ pc' # pc
            /\ FileKind(pidFile, procs) = "stale") =>
          /\ pidFile' = NoFile
          /\ procs' = procs
          /\ h'.term = h.term /\ h'.kill = h.kill
          /\ pc = "status" =>
                pc' = "idle" /\ ret' > 0 /\ out' = "Server is not running"
          /\ pc = "stop" =>
                h'.stopRet > 0 /\ h'.stopOut = "Server is not running"
          /\ pc = "start" => pc' = "start_spawn"]_vars

C9_Witness ==
    /\ pc = "start_spawn" /\ cmd = "start"
    /\ h.startSaw = "stale" /\ pidFile = NoFile

\* Whether the liveness check made in a step reported a pid, read off what
\* its caller did with the result.
ReportedPid ==
    CASE pc = "status" -> ret' = 0
      [] pc = "start" -> pc' = "idle" /\ out' = "Server already running"
      [] pc = "stop" -> pid' = pidFile /\ pc' = "stop_term"
      [] pc = "restart" -> pc' = "stop"
      [] pc = "start_check" -> ret' = 0 /\ out' = "Server started"
      [] OTHER -> FALSE

\* C10: get_pid reports a pid, leaving the PID file unchanged, only when
\* the file exists, holds a decimal integer and the zero-signal probe
\* succeeds; in every other case (file missing, unparsable, process not
\* found, probe not permitted) it reports none and no PID file is left.
C10_GetPid ==
    [][(pc \in {"status", "start", "stop", "restart", "start_check"} /\ pc' # pc) =>
          IF pidFile \in Pids /\ os_kill(procs, pidFile) = "ok"
          THEN ReportedPid /\ pidFile' = pidFile
          ELSE ~ReportedPid /\ pidFile' = NoFile]_vars

C10_Witness ==
    /\ pc = "idle" /\ cmd = "status"
    /\ h.entry = "denied" /\ h.fileRet = "absent" /\ ret = 1
\* C11: start on a Stopped instance runs the spawn command once; it returns
\* 0 exactly when the spawn succeeded and the liveness check after the
\* delay found a PID file naming a live process; a successful spawn with no
\* live pid observed gives a non-zero code; a failed spawn gives the spawn
\* command's own non-zero code and no liveness check follows it.
C11_StartOnStopped ==
    (pc = "idle" /\ cmd \in {"start", "restart"} /\ ~raised
        /\ h.startSaw \notin {"none", "live"}) =>
        /\ h.spawns = 1
        /\ (ret = 0) <=> (h.spawnRc = 0 /\ h.probe = "live")
        /\ ret = 0 => h.fileRet = "live" /\ out = "Server started"
        /\ (h.spawnRc = 0 /\ h.probe # "live") =>
                ret > 0 /\ out = "Server started but PID file not found"
        /\ h.spawnRc # 0 =>
                ret = h.spawnRc /\ h.probe = "none" /\ out = "Failed to start server"

C11_Witness ==
    /\ pc = "idle" /\ cmd = "start"
    /\ h.startSaw = "absent" /\ h.spawnRc = 0 /\ h.probe = "absent"
    /\ ret = 1 /\ pending # {}

\* C12 as stated: when a command returns, the PID file is absent or names
\* a process that the command's last liveness check found alive; and every
\* liveness check deletes a PID file that names a dead process.
C12_PidFileConsistentAtReturn ==
    [][/\ (pc # "idle" /\ pc' = "idle" /\ ~raised') =>
            h'.fileRet \in {"absent", "live"}
       /\ (pc \in {"status", "start", "stop", "restart", "start_check"} /\ pc' # pc
            /\ FileKind(pidFile, procs) = "stale") => pidFile' = NoFile]_vars

\* The same for commands called with no daemon alive besides the one the
\* PID file names: the only PID file a command leaves behind that names a
\* dead process was written by a daemon of an earlier start.
PidFileConsistentWhenTracked ==
    (pc = "idle" /\ cmd # "none" /\ ~raised /\ h.quiet) =>
        h.fileRet \in {"absent", "live"}

\* C19 as stated: at most one daemon spawned by the controller is alive.
C19_AtMostOneDaemon ==
    Cardinality({p \in Pids : procs[p] = "server"}) <= 1
\* The merge the documentation describes, on trees: a key only in base
\* keeps base's value, a key only in override takes override's, mappings on
\* both sides merge recursively, any other conflict takes override's value.
RECURSIVE RefMerge(_, _)
RefMerge(b, o) ==
    [k \in (DOMAIN b) \cup (DOMAIN o) |->
        IF k \notin DOMAIN o THEN b[k]
        ELSE IF k \notin DOMAIN b THEN o[k]
        ELSE IF IsMap(b[k]) /\ IsMap(o[k]) THEN [m |-> RefMerge(b[k].m, o[k].m)]
        ELSE o[k]]

BaseTree == Deref(heap0, refs.base)
OverTree == Deref(heap0, refs.over)

\* C15: the dict deep_merge returns equals the reference merge of its
\* arguments, for every pair of nested mappings of the model (scalar,
\* list and mapping values, up to three levels deep).
C15_DeepMergeIsReferenceMerge ==
    refs.res # 0 => Deref(heap, refs.res) = RefMerge(BaseTree, OverTree)

C15_Witness ==
    /\ refs.res # 0
    /\ DOMAIN BaseTree = {"a", "b"} /\ DOMAIN OverTree = {"a", "b"}
    /\ IsMap(BaseTree["a"]) /\ IsMap(OverTree["a"])
    /\ DOMAIN BaseTree["a"].m = {"a", "b"} /\ DOMAIN OverTree["a"].m = {"a"}
    /\ IsMap(BaseTree["a"].m["a"]) /\ IsMap(OverTree["a"].m["a"])
    /\ BaseTree["b"] = [l |-> <<1>>] /\ OverTree["b"] = [l |-> <<2>>]
    /\ Deref(heap, refs.res)["b"] = [l |-> <<2>>]
    /\ Deref(heap, refs.res)["a"].m["b"] = BaseTree["a"].m["b"]

\* C20: deep_merge changes none of the dict objects it was given: base,
\* override and every dict nested in them hold after the call what they
\* held before it; and merging an empty override returns a dict equal to
\* base.
C20_DeepMergeLeavesArguments ==
    refs.res # 0 =>
        /\ \A a \in Reach(heap0, refs.base) \cup Reach(heap0, refs.over) :
                heap[a] = heap0[a]
        /\ Deref(heap, refs.base) = BaseTree
        /\ Deref(heap, refs.over) = OverTree
        /\ OverTree = <<>> => Deref(heap, refs.res) = BaseTree

\* The result shares a nested dict with base, and base still is what it was.
C20_Witness ==
    /\ refs.res # 0 /\ refs.res # refs.base
    /\ OverTree # <<>>
    /\ \E k \in DOMAIN heap[refs.res] :
            /\ IsRef(heap[refs.res][k])
            /\ heap[refs.res][k].r \in Reach(heap0, refs.base)

\* ------------------------------------------------ web front properties
\* A configuration-reading operation of kind op answers in this step.
Answers(op) == tick' # tick /\ resp'.op = op

\* The configuration the documentation describes for the current files.
ConfigLoads == Readable(baseDoc) /\ localDoc # Malformed

RefConfig ==
    IF localDoc = Missing THEN baseDoc.doc ELSE RefMerge(baseDoc.doc, localDoc.doc)

RefServices ==
    IF "services" \in DOMAIN RefConfig THEN RefConfig["services"].m ELSE <<>>

RefUrl(sid) ==
    IF "url" \in DOMAIN RefServices[sid].m THEN RefServices[sid].m["url"].t ELSE ""

Known(sid) == ConfigLoads /\ sid \in DOMAIN RefServices

\* C13: GET /health/{service_id} answers 404 with status unknown exactly
\* when the configuration loads and service_id is not a key of its services
\* table, and then sends no probe; for a known service_id it answers 200
\* whatever the probe's outcome.
C13_UnknownService404 ==
    [][Answers("health") =>
        /\ resp'.code = 404 <=> (ConfigLoads /\ resp'.sid \notin DOMAIN RefServices)
        /\ resp'.code = 404 =>
            /\ resp'.status = "unknown"
            /\ resp'.error = "Service not found"
            /\ ~resp'.probed
        /\ Known(resp'.sid) =>
            /\ resp'.code = 200
            /\ resp'.probed
            /\ resp'.status \in {"up", "down"}]_allVars

\* s1 is configured, s2 is asked for: 404, unknown, nothing probed.
C13_Witness ==
    /\ resp.op = "health" /\ resp.sid = "s2"
    /\ Known("s1") /\ ~Known("s2")
    /\ resp.code = 404 /\ resp.status = "unknown" /\ ~resp.probed

\* A GET to the service's url was answered.
Arrived(r) == RefUrl(r.sid) # "" /\ r.net.kind = "response"

\* C14: for a known service the result is up with a latency iff a response
\* arrived with status code < 500, down with a latency iff a response
\* arrived with status code >= 500, down without a latency iff the request
\* failed at transport level (refused, timeout, absent or empty url); the
\* answer is HTTP 200 in every case.
C14_ProbeResult ==
    [][Answers("health") /\ Known(resp'.sid) =>
        LET r == resp'
        IN /\ (r.status = "up" /\ r.latency # NoLatency)
                <=> (Arrived(r) /\ r.net.code < 500)
           /\ (r.status = "down" /\ r.latency # NoLatency)
                <=> (Arrived(r) /\ r.net.code >= 500)
           /\ (r.status = "down" /\ r.latency = NoLatency) <=> ~Arrived(r)
           /\ r.latency # NoLatency => r.latency = r.net.ms
           /\ r.code = 200 /\ ~r.failed]_allVars

\* A 404 from the service counts as up, with its latency.
C14_Witness ==
    /\ resp.op = "health" /\ Known(resp.sid)
    /\ resp.net.kind = "response" /\ resp.net.code = 404
    /\ resp.status = "up" /\ resp.latency = 25

\* The port of the configuration the documentation describes.
RefPort ==
    IF "server" \in DOMAIN RefConfig /\ "port" \in DOMAIN RefConfig["server"].m
    THEN RefConfig["server"].m["port"].i
    ELSE 5000

\* C16: whenever config.toml is there, the port _load_port resolves and the
\* port main() takes from the merged configuration are the same, and are
\* server.port of the merged documents or 5000, for every base document
\* and every local override (absent, without a server table, without a
\* port key, with a port); where one fails to parse a file so does the other.
C16_PortsAgree ==
    [][(Answers("load_port") \/ Answers("main")) /\ baseDoc # Missing =>
        LET other == IF resp'.op = "main" THEN load_port(baseDoc, localDoc)
                     ELSE main_port(baseDoc, localDoc)
        IN /\ resp'.failed = other.failed
           /\ resp'.port = other.port
           /\ resp'.failed <=> ~ConfigLoads
           /\ ConfigLoads => resp'.port = RefPort]_allVars

\* The base document sets the port, the override has a server table
\* without a port: _load_port keeps the base document's port.
C16_Witness ==
    /\ resp.op = "load_port" /\ ~resp.failed
    /\ baseDoc \in {[doc |-> d] : d \in {x \in BaseDocs : "server" \in DOMAIN x}}
    /\ baseDoc.doc["server"] = Port(BasePort)
    /\ localDoc = [doc |-> [server |-> Empty]]
    /\ resp.port = BasePort

\* C17: a missing or malformed config.toml makes every operation that reads
\* the configuration fail (request, main(), _load_port); an absent
\* config.local.toml is skipped; a readable configuration without
\* server.port gives port 5000.
C17_BaseConfigFatal ==
    [][tick' # tick =>
        /\ ~Readable(baseDoc) => resp'.failed
        /\ Readable(baseDoc) /\ localDoc = Missing => ~resp'.failed
        /\ ConfigLoads /\ resp'.op \in {"main", "load_port"} =>
              resp'.port = RefPort]_allVars

\* What the code does guarantee: the web front fails exactly when
\* config.toml is missing or either file is malformed, _load_port only
\* when a file is malformed.
ConfigFailures ==
    [][tick' # tick =>
        IF resp'.op = "load_port"
        THEN resp'.failed <=> (baseDoc = Malformed \/ localDoc = Malformed)
        ELSE resp'.failed <=> ~ConfigLoads]_allVars

\* C18: the answer to GET / and to GET /health/{service_id} is the one the
\* files' contents at the time of the request determine: the services
\* listed, whether the service is known, and the url probed are those of
\* the merge of the current documents, whatever earlier requests saw.
C18_FreshConfigPerRequest ==
    [][(Answers("index") \/ Answers("health")) =>
        LET r == resp'
        IN /\ r.failed <=> ~ConfigLoads
           /\ r.failed => r.code = 500
           /\ ConfigLoads /\ r.op = "index" =>
                r.code = 200 /\ r.services = RefServices
           /\ ConfigLoads /\ r.op = "health" =>
                IF r.sid \in DOMAIN RefServices
                THEN r.code = 200 /\ r.probed /\ r.url = RefUrl(r.sid)
                ELSE r.code = 404 /\ ~r.probed]_allVars

\* The same request got a different answer than the time before, the one
\* of the files as they are now.
C18_Witness ==
    /\ resp.op = "index" /\ resp.changed
    /\ ConfigLoads /\ localDoc # Missing
    /\ resp.services = RefServices
    /\ "s2" \in DOMAIN resp.services
====
